---------------------------- MODULE Spec2Model ----------------------------
(***************************************************************************)
(* Address derivation and serialisation of wallet-crypto/src/address.rs.   *)
(*                                                                         *)
(* Byte strings are sequences of naturals in 0..255.  An encoder of the    *)
(* source, fn encode(&self, buf: &mut Vec<u8>), is an operator that takes  *)
(* the buffer and returns the buffer after the call.                       *)
(***************************************************************************)
EXTENDS Naturals, Sequences, FiniteSets

(***************************************************************************)
(* Bounds of the model.                                                    *)
(***************************************************************************)
\* number of distinct extended public keys the caller can hold
NumKeys == 2
\* derivation payloads have 0..MaxPayloadLen bytes
MaxPayloadLen == 23
\* a caller's sink holds at most MaxPre bytes before an encoder is applied
MaxPre == 2
\* the payloads of the calls compared pairwise have 0..MaxPairPayloadLen bytes
MaxPairPayloadLen == 1

(***************************************************************************)
(* State.                                                                  *)
(*   sink      a buffer owned by the caller, which the encoders append to  *)
(*   op        the operation that ran last, with sink as it was before it   *)
(*   status    "ok", or "panicked" once a call has panicked                *)
(*   buff      the local buffer of the last Addr::new                      *)
(*   first     the first Addr::new that returned: its arguments and result *)
(*   last      the latest Addr::new that returned after the first          *)
(*   ea        the ExtendedAddr the caller holds (a sequence of 0 or 1)    *)
(*   ea_args   the arguments that ExtendedAddr::new was given for ea, and  *)
(*             the bytes its Addr::new hashed                              *)
(*   copy      a clone of ea                                               *)
(*   out       the vector returned by the last to_bytes                    *)
(*   detached  the Addr returned by the last Addr::from_bytes              *)
(***************************************************************************)
VARIABLES sink, op, status, buff, first, last, ea, ea_args, copy, out, detached

vars == <<sink, op, status, buff, first, last, ea, ea_args, copy, out, detached>>

(***************************************************************************)
(* cbor::spec, the primitive codec (RFC 7049 headers).                     *)
(***************************************************************************)
MajorType_UINT  == 0
MajorType_BYTES == 2
MajorType_ARRAY == 4
MajorType_MAP   == 5
MajorType_TAG   == 6

\* the big-endian bytes of v on n bytes
RECURSIVE be_bytes(_, _)
be_bytes(v, n) ==
    IF n = 0 THEN << >> ELSE Append(be_bytes(v \div 256, n - 1), v % 256)

write_length_encoding(mt, nb_elems, buf) ==
    IF nb_elems < 24 THEN Append(buf, mt * 32 + nb_elems)
    ELSE IF nb_elems < 256 THEN buf \o <<mt * 32 + 24>> \o be_bytes(nb_elems, 1)
    ELSE IF nb_elems < 65536 THEN buf \o <<mt * 32 + 25>> \o be_bytes(nb_elems, 2)
    ELSE buf \o <<mt * 32 + 26>> \o be_bytes(nb_elems, 4)

cbor_uint(v, buf) == write_length_encoding(MajorType_UINT, v, buf)

cbor_bs(bs, buf) == write_length_encoding(MajorType_BYTES, Len(bs), buf) \o bs

cbor_array_start(nb_values, buf) ==
    write_length_encoding(MajorType_ARRAY, nb_values, buf)

cbor_map_start(nb_values, buf) ==
    write_length_encoding(MajorType_MAP, nb_values, buf)

cbor_tag(tag, buf) == write_length_encoding(MajorType_TAG, tag, buf)

(***************************************************************************)
(* A u32 is kept as its two 16-bit halves.                                 *)
(***************************************************************************)
U32(h, l) == [hi |-> h, lo |-> l]

\* the unsigned-integer header of a 4-byte argument, then the value big-endian
write_u32(v, buf) ==
    buf \o <<MajorType_UINT * 32 + 26>> \o be_bytes(v.hi, 2) \o be_bytes(v.lo, 2)

(***************************************************************************)
(* crc32::crc32 (CRC-32, reflected polynomial EDB88320).                   *)
(***************************************************************************)
RECURSIVE xor(_, _)
xor(a, b) ==
    IF a = 0 THEN b
    ELSE IF b = 0 THEN a
    ELSE ((a + b) % 2) + 2 * xor(a \div 2, b \div 2)

crc_shift(c) ==
    LET h == c.hi \div 2
        l == (c.lo \div 2) + (c.hi % 2) * 32768
    IN  IF c.lo % 2 = 1 THEN U32(xor(h, 60856), xor(l, 33568)) ELSE U32(h, l)

\* the table of the byte-wise algorithm: entry n + 1 is n after eight shifts
crc_table_entry(n) ==
    crc_shift(crc_shift(crc_shift(crc_shift(
        crc_shift(crc_shift(crc_shift(crc_shift(U32(0, n)))))))))

crc_table == SubSeq([n \in 1..256 |-> crc_table_entry(n - 1)], 1, 256)

crc_byte(c, b) ==
    LET e == crc_table[xor(c.lo % 256, b) + 1]
    IN  U32(xor(c.hi \div 256, e.hi),
            xor((c.lo \div 256) + (c.hi % 256) * 256, e.lo))

\* the register c after bytes lo..hi of bs, left to right; the range is halved
\* and the register of the left half is a value before the right half starts
RECURSIVE crc_update(_, _, _, _)
crc_update(c, bs, lo, hi) ==
    IF lo > hi THEN c
    ELSE IF lo = hi THEN crc_byte(c, bs[lo])
    ELSE LET mid == (lo + hi) \div 2
         IN  CHOOSE r \in {crc_update(c1, bs, mid + 1, hi) :
                              c1 \in {crc_update(c, bs, lo, mid)}} : TRUE

crc32(bs) ==
    LET c == crc_update(U32(65535, 65535), bs, 1, Len(bs))
    IN  U32(xor(c.hi, 65535), xor(c.lo, 65535))

(***************************************************************************)
(* rcw::sha3 and rcw::blake2b are outside the repository's address code.   *)
(* They are modelled as fixed deterministic functions of the whole input   *)
(* with the output sizes of the primitives (32 and 28 bytes): two running  *)
(* sums of the input, the second weighted by position, spread over the     *)
(* output bytes.                                                           *)
(***************************************************************************)
RECURSIVE sum_range(_, _, _, _)
sum_range(bs, lo, hi, weighted) ==
    IF lo > hi THEN 0
    ELSE IF lo = hi THEN (IF weighted THEN lo * (bs[lo] + 1) ELSE bs[lo] + 1)
    ELSE LET mid == (lo + hi) \div 2
         IN  (sum_range(bs, lo, mid, weighted)
                + sum_range(bs, mid + 1, hi, weighted)) % 65521

hash_bytes(bs, size, salt) ==
    LET s1 == sum_range(bs, 1, Len(bs), FALSE)
        s2 == sum_range(bs, 1, Len(bs), TRUE)
    IN  [i \in 1..size |->
            (s1 * (i + salt) + s2 * (2 * i + 1) + (s2 \div 256) + salt) % 256]

Sha3_256(bs) == hash_bytes(bs, 32, 3)

Blake2b_224(bs) == hash_bytes(bs, 28, 2)

(***************************************************************************)
(* hs_cbor: sum types, options and tuples.                                 *)
(***************************************************************************)
sumtype_start(tag, nb_values, buf) ==
    cbor_uint(tag, cbor_array_start(nb_values + 1, buf))

\* Vec::new() / vec![]: the empty buffer every serialisation starts from
new_vec == << >>

(***************************************************************************)
(* hdwallet::XPub, an extended public key: XPUB_SIZE opaque bytes.         *)
(***************************************************************************)
XPUB_SIZE == 64

XPub(k) == [i \in 1..XPUB_SIZE |-> (k * 41 + i * 7) % 256]

XPubs == {XPub(k) : k \in 1..NumKeys}

cbor_xpub(pubk, buf) == cbor_bs(pubk, buf)

(***************************************************************************)
(* DigestBlake2b.                                                          *)
(***************************************************************************)
DigestBlake2b_from_bytes(bytes) == bytes

DigestBlake2b_new(buf) ==
    LET out1 == Sha3_256(buf)
        out2 == Blake2b_224(out1)
    IN  DigestBlake2b_from_bytes(out2)

DigestBlake2b_encode(d, buf) == cbor_bs(d, buf)

(***************************************************************************)
(* AddrType.                                                               *)
(***************************************************************************)
AddrTypes == {"ATPubKey", "ATScript", "ATRedeem"}

\* ATRedeem given the byte of ATScript
AddrType_to_byte_dup(t) ==
    CASE t = "ATPubKey" -> 0
      [] t = "ATScript" -> 1
      [] t = "ATRedeem" -> 1

AddrType_to_byte(t) ==
    CASE t = "ATPubKey" -> 0
      [] t = "ATScript" -> 1
      [] t = "ATRedeem" -> 2

AddrType_encode(t, buf) == cbor_uint(AddrType_to_byte(t), buf)

(***************************************************************************)
(* StakeholderId and StakeDistribution.                                    *)
(***************************************************************************)
StakeholderId_new(pubk) == DigestBlake2b_new(cbor_xpub(pubk, new_vec))

StakeholderId_encode(si, buf) == DigestBlake2b_encode(si, buf)

STAKE_DISTRIBUTION_TAG_BOOTSTRAP == 1
STAKE_DISTRIBUTION_TAG_SINGLEKEY == 0

BootstrapEraDistr == [variant |-> "BootstrapEraDistr", si |-> << >>]

StakeDistribution_new_single_stakeholder(id) ==
    [variant |-> "SingleKeyDistr", si |-> id]

StakeDistribution_new_single_key(pubk) ==
    StakeDistribution_new_single_stakeholder(StakeholderId_new(pubk))

\* the sum type written straight into buf
StakeDistribution_encode_inline(sd, buf) ==
    IF sd.variant = "BootstrapEraDistr"
    THEN sumtype_start(STAKE_DISTRIBUTION_TAG_BOOTSTRAP, 0, buf)
    ELSE StakeholderId_encode(sd.si,
             sumtype_start(STAKE_DISTRIBUTION_TAG_SINGLEKEY, 1, buf))

\* the sum type is written to a buffer of its own, which is then written to
\* buf as one byte string
StakeDistribution_encode(sd, buf) ==
    LET vec == IF sd.variant = "BootstrapEraDistr"
               THEN sumtype_start(STAKE_DISTRIBUTION_TAG_BOOTSTRAP, 0, new_vec)
               ELSE StakeholderId_encode(sd.si,
                        sumtype_start(STAKE_DISTRIBUTION_TAG_SINGLEKEY, 1, new_vec))
    IN  cbor_bs(vec, buf)

(***************************************************************************)
(* HDAddressPayload and Option<HDAddressPayload>.                          *)
(***************************************************************************)
HDAddressPayload_new(bytes) == bytes

\* the payload wrapped once
HDAddressPayload_encode_once(p, buf) == cbor_bs(p, buf)

HDAddressPayload_encode(p, buf) == cbor_bs(cbor_bs(p, new_vec), buf)

None == [some |-> FALSE, val |-> << >>]
Some(t) == [some |-> TRUE, val |-> t]

\* Some written as the variant with tag 1 and one field
Option_encode_tagged(o, buf) ==
    IF o.some THEN HDAddressPayload_encode(o.val, sumtype_start(1, 1, buf))
    ELSE sumtype_start(0, 0, buf)

Option_encode(o, buf) ==
    IF o.some THEN HDAddressPayload_encode(o.val, buf)
    ELSE sumtype_start(0, 0, buf)

(***************************************************************************)
(* Attributes.                                                             *)
(***************************************************************************)
Attributes_new_era ==
    [derivation_path |-> None, stake_distribution |-> BootstrapEraDistr]

Attributes_new_single_key(pubk, hdap) ==
    [derivation_path |-> hdap,
     stake_distribution |-> StakeDistribution_new_single_key(pubk)]

ATTRIBUTE_NAME_TAG_STAKE == 0
ATTRIBUTE_NAME_TAG_DERIVATION == 1

Attributes_encode(a, buf) ==
    LET b0 == cbor_map_start(2, buf)
        b1 == cbor_uint(ATTRIBUTE_NAME_TAG_STAKE, b0)
        b2 == StakeDistribution_encode(a.stake_distribution, b1)
        b3 == cbor_uint(ATTRIBUTE_NAME_TAG_DERIVATION, b2)
    IN  Option_encode(a.derivation_path, b3)

(***************************************************************************)
(* SpendingData.  Encoding ScriptASD or RedeemASD panics: the operator     *)
(* returns the buffer as the panic leaves it, and SpendingData_panics says *)
(* that the call did not return.                                           *)
(***************************************************************************)
SPENDING_DATA_TAG_PUBKEY == 0

PubKeyASD(xpub) == [variant |-> "PubKeyASD", data |-> xpub]
ScriptASD == [variant |-> "ScriptASD", data |-> [i \in 1..32 |-> 0]]
RedeemASD == [variant |-> "RedeemASD", data |-> [i \in 1..32 |-> 0]]

SpendingData_panics(sd) == sd.variant # "PubKeyASD"

SpendingData_encode(sd, buf) ==
    IF sd.variant = "PubKeyASD"
    THEN cbor_xpub(sd.data, sumtype_start(SPENDING_DATA_TAG_PUBKEY, 1, buf))
    ELSE buf

(***************************************************************************)
(* Addr.                                                                   *)
(***************************************************************************)
\* (&addr_type, spending_data, attrs).encode(&mut buff): the 3-tuple encoder
\* writes the array header and the elements in order; a panic in the second
\* element leaves the third unwritten
Addr_preimage(addr_type, spending_data, attrs, vec) ==
    LET b0 == write_length_encoding(MajorType_ARRAY, 3, vec)
        b1 == AddrType_encode(addr_type, b0)
        b2 == SpendingData_encode(spending_data, b1)
    IN  IF SpendingData_panics(spending_data) THEN b2
        ELSE Attributes_encode(attrs, b2)

\* the buffer of the previous call used again without being emptied
Addr_new_reused_buffer(addr_type, spending_data, attrs) ==
    DigestBlake2b_new(Addr_preimage(addr_type, spending_data, attrs, buff))

Addr_new(addr_type, spending_data, attrs) ==
    DigestBlake2b_new(Addr_preimage(addr_type, spending_data, attrs, new_vec))

Addr_from_bytes(bytes) == DigestBlake2b_from_bytes(bytes)

Addr_encode(a, buf) == DigestBlake2b_encode(a, buf)

(***************************************************************************)
(* ExtendedAddr.                                                           *)
(***************************************************************************)
\* the address derived without the attributes it is stored with
ExtendedAddr_new_era_addr(ty, sd, attrs) ==
    [addr |-> Addr_new(ty, sd, Attributes_new_era), attributes |-> attrs,
     addr_type |-> ty]

ExtendedAddr_new(ty, sd, attrs) ==
    [addr |-> Addr_new(ty, sd, attrs), attributes |-> attrs, addr_type |-> ty]

\* the fields in the order of the derivation tuple: kind first
ExtendedAddr_encode_kind_first(self, buf) ==
    LET b0 == write_length_encoding(MajorType_ARRAY, 3, buf)
        b1 == AddrType_encode(self.addr_type, b0)
        b2 == Addr_encode(self.addr, b1)
    IN  Attributes_encode(self.attributes, b2)

ExtendedAddr_encode(self, buf) ==
    LET b0 == write_length_encoding(MajorType_ARRAY, 3, buf)
        b1 == Addr_encode(self.addr, b0)
        b2 == Attributes_encode(self.attributes, b1)
    IN  AddrType_encode(self.addr_type, b2)

serialize(self) == ExtendedAddr_encode(self, new_vec)

\* the checksum taken over the wrapped bytes
encode_with_crc32_of_wrapper(self, buf) ==
    LET v  == serialize(self)
        b0 == cbor_array_start(2, buf)
        b1 == cbor_tag(24, b0)
        b2 == cbor_bs(v, b1)
    IN  write_u32(crc32(b2), b2)

\* the byte string written without its tag
encode_with_crc32_no_tag(self, buf) ==
    LET v  == serialize(self)
        b0 == cbor_array_start(2, buf)
        b2 == cbor_bs(v, b0)
    IN  write_u32(crc32(v), b2)

encode_with_crc32(self, buf) ==
    LET v  == serialize(self)
        b0 == cbor_array_start(2, buf)
        b1 == cbor_tag(24, b0)
        b2 == cbor_bs(v, b1)
    IN  write_u32(crc32(v), b2)

ExtendedAddr_to_bytes(self) == encode_with_crc32(self, new_vec)

(***************************************************************************)
(* The values a caller can build through the public constructors.          *)
(***************************************************************************)
\* the bytes a caller hands to HDAddressPayload::new: 1, 2, ..., n
PayloadBytes(n) == [i \in 1..n |-> i]

Payloads == {HDAddressPayload_new(PayloadBytes(n)) : n \in 0..MaxPayloadLen}

\* the payloads of the calls that are compared pairwise
PairPayloads ==
    {HDAddressPayload_new(PayloadBytes(n)) : n \in 0..MaxPairPayloadLen}
        \cup {HDAddressPayload_new(<<2>>)}

Options(ps) == {None} \cup {Some(p) : p \in ps}

AttributesOver(ps) ==
    {Attributes_new_era}
        \cup {Attributes_new_single_key(k, o) : k \in XPubs, o \in Options(ps)}

AllOptions == Options(Payloads)

AllAttributes == AttributesOver(Payloads)

PairAttributes == AttributesOver(PairPayloads)

SpendingDatas == {PubKeyASD(k) : k \in XPubs} \cup {ScriptASD, RedeemASD}

StakeDistributions ==
    {BootstrapEraDistr} \cup {StakeDistribution_new_single_key(k) : k \in XPubs}

\* the 28-byte arrays a caller hands to Addr::from_bytes
RawDigests == {[i \in 1..28 |-> (i * 9) % 256]}

addrVars == <<buff, first, last>>
extVars  == <<ea, ea_args, copy, out, detached>>

Op(name, arg) == [name |-> name, arg |-> arg, pre |-> sink]

Init ==
    /\ sink = << >>
    /\ op = [name |-> "init", arg |-> "", pre |-> << >>]
    /\ status = "ok"
    /\ buff = << >>
    /\ first = << >>
    /\ last = << >>
    /\ ea = << >>
    /\ ea_args = << >>
    /\ copy = << >>
    /\ out = << >>
    /\ detached = << >>

Running == status = "ok"

(***************************************************************************)
(* The encoders applied to the caller's sink.                              *)
(***************************************************************************)
CanAppend == Running /\ Len(sink) <= MaxPre

EncodeAddrType ==
    \E t \in AddrTypes :
        /\ CanAppend
        /\ sink' = AddrType_encode(t, sink)
        /\ op' = Op("AddrType::encode", t)
        /\ UNCHANGED <<status, addrVars, extVars>>

EncodeOption ==
    \E o \in AllOptions :
        /\ CanAppend
        /\ sink' = Option_encode(o, sink)
        /\ op' = Op("Option::encode", o)
        /\ UNCHANGED <<status, addrVars, extVars>>

EncodeStakeDistribution ==
    \E sd \in StakeDistributions :
        /\ CanAppend
        /\ sink' = StakeDistribution_encode(sd, sink)
        /\ op' = Op("StakeDistribution::encode", sd)
        /\ UNCHANGED <<status, addrVars, extVars>>

EncodeAttributes ==
    \E a \in AllAttributes :
        /\ CanAppend
        /\ sink' = Attributes_encode(a, sink)
        /\ op' = Op("Attributes::encode", a)
        /\ UNCHANGED <<status, addrVars, extVars>>

EncodeSpendingData ==
    \E sd \in SpendingDatas :
        /\ CanAppend
        /\ sink' = SpendingData_encode(sd, sink)
        /\ op' = Op("SpendingData::encode", sd.variant)
        /\ status' = IF SpendingData_panics(sd) THEN "panicked" ELSE "ok"
        /\ UNCHANGED <<addrVars, extVars>>

(***************************************************************************)
(* Addr::new and Addr::from_bytes.                                         *)
(***************************************************************************)
\* a call of Addr::new that returns: its arguments, the bytes it hashes and
\* its result
Call(ty, sd, attrs) ==
    [addr_type |-> ty, spending_data |-> sd, attrs |-> attrs,
     preimage |-> Addr_preimage(ty, sd, attrs, new_vec),
     addr |-> Addr_new(ty, sd, attrs)]

PairCalls ==
    {Call(ty, PubKeyASD(k), attrs) :
        ty \in AddrTypes, k \in XPubs, attrs \in PairAttributes}

AddrNew ==
    \/ \E c \in PairCalls :
        /\ Running
        /\ buff' = c.preimage
        /\ IF first = << >>
           THEN first' = <<c>> /\ last' = last
           ELSE last' = <<c>> /\ first' = first
        /\ op' = Op("Addr::new", c.spending_data.variant)
        /\ UNCHANGED <<sink, status, extVars>>
    \/ \E ty \in AddrTypes, sd \in {ScriptASD, RedeemASD}, attrs \in PairAttributes :
        /\ Running
        /\ SpendingData_panics(sd)
        /\ buff' = Addr_preimage(ty, sd, attrs, new_vec)
        /\ status' = "panicked"
        /\ op' = Op("Addr::new", sd.variant)
        /\ UNCHANGED <<sink, first, last, extVars>>

\* an Addr made from raw bytes is a value of its own: no ExtendedAddr takes it
AddrFromBytes ==
    \E bytes \in RawDigests :
        /\ Running
        /\ detached = << >>
        /\ detached' = Addr_from_bytes(bytes)
        /\ UNCHANGED <<sink, op, status, addrVars, ea, ea_args, copy, out>>

(***************************************************************************)
(* ExtendedAddr: new, to_bytes, encode, clone, and the end of its life.    *)
(***************************************************************************)
ExtendedAddrNew ==
    \E ty \in AddrTypes, sd \in SpendingDatas, attrs \in AllAttributes :
        /\ Running
        /\ ea = << >>
        /\ buff' = Addr_preimage(ty, sd, attrs, new_vec)
        /\ op' = Op("ExtendedAddr::new", sd.variant)
        /\ IF SpendingData_panics(sd)
           THEN /\ status' = "panicked"
                /\ UNCHANGED <<ea, ea_args>>
           ELSE /\ status' = "ok"
                /\ ea' = <<ExtendedAddr_new(ty, sd, attrs)>>
                /\ ea_args' = <<[addr_type |-> ty, spending_data |-> sd,
                                 attrs |-> attrs, hashed |-> buff']>>
        /\ UNCHANGED <<sink, first, last, copy, out, detached>>

ExtendedAddrToBytes ==
    /\ Running
    /\ ea # << >>
    /\ out' = ExtendedAddr_to_bytes(ea[1])
    /\ UNCHANGED <<sink, op, status, addrVars, ea, ea_args, copy, detached>>

ExtendedAddrEncode ==
    /\ CanAppend
    /\ ea # << >>
    /\ sink' = ExtendedAddr_encode(ea[1], sink)
    /\ op' = Op("ExtendedAddr::encode", "")
    /\ UNCHANGED <<status, addrVars, extVars>>

ExtendedAddrClone ==
    /\ Running
    /\ ea # << >>
    /\ copy' = ea
    /\ UNCHANGED <<sink, op, status, addrVars, ea, ea_args, out, detached>>

\* the caller's scope ends: the ExtendedAddr, its clone, the vectors and the
\* sink are dropped
ExtendedAddrDrop ==
    /\ Running
    /\ ea # << >>
    /\ ea' = << >>
    /\ ea_args' = << >>
    /\ copy' = << >>
    /\ out' = << >>
    /\ detached' = << >>
    /\ sink' = << >>
    /\ buff' = << >>
    /\ op' = [name |-> "init", arg |-> "", pre |-> << >>]
    /\ UNCHANGED <<status, first, last>>

(***************************************************************************)
(* Specifications.  Spec is a caller of the whole interface.  SpecEncode,  *)
(* SpecAddr and SpecExt are the callers that use one part of it: the       *)
(* encoders on a sink, Addr::new called again and again, and the life of   *)
(* one ExtendedAddr.  The parts share no state, so that the states of Spec *)
(* are the combinations of theirs.                                         *)
(***************************************************************************)
NextEncode ==
    \/ EncodeAddrType
    \/ EncodeOption
    \/ EncodeStakeDistribution
    \/ EncodeAttributes
    \/ EncodeSpendingData

NextAddr ==
    \/ AddrNew

NextExt ==
    \/ AddrFromBytes
    \/ ExtendedAddrNew
    \/ ExtendedAddrToBytes
    \/ ExtendedAddrEncode
    \/ ExtendedAddrClone
    \/ ExtendedAddrDrop

Next == NextEncode \/ NextAddr \/ NextExt

Spec == Init /\ [][Next]_vars

SpecEncode == Init /\ [][NextEncode]_vars

SpecAddr == Init /\ [][NextAddr]_vars

SpecExt == Init /\ [][NextExt]_vars

(***************************************************************************)
(* Properties.  The operators below read byte strings back; they are part  *)
(* of the statements and model no code.                                    *)
(***************************************************************************)
\* s without its first n elements
DropFirst(s, n) == SubSeq(s, n + 1, Len(s))

\* the byte-string item whose header starts at s[i]: is it one, the size of its
\* header, its length and its content
IsBsAt(s, i) == i <= Len(s) /\ s[i] \in 64..89

BsHeaderSize(s, i) == IF s[i] < 88 THEN 1 ELSE IF s[i] = 88 THEN 2 ELSE 3

BsLen(s, i) ==
    IF s[i] < 88 THEN s[i] - 64
    ELSE IF s[i] = 88 THEN s[i + 1]
    ELSE s[i + 1] * 256 + s[i + 2]

BsContent(s, i) ==
    SubSeq(s, i + BsHeaderSize(s, i), i + BsHeaderSize(s, i) + BsLen(s, i) - 1)

\* the four bytes of a u32, most significant first
BigEndian4(v) == <<v.hi \div 256, v.hi % 256, v.lo \div 256, v.lo % 256>>

\* the address kinds as the protocol numbers them
KindNumber(t) == IF t = "ATPubKey" THEN 0 ELSE IF t = "ATScript" THEN 1 ELSE 2

\* the sum-type framing of a stake distribution
StakeFraming(sd) ==
    IF sd.variant = "SingleKeyDistr" THEN <<130, 0, 88, 28>> \o sd.si
    ELSE <<129, 1>>

UnsupportedVariants == {"ScriptASD", "RedeemASD"}

SameArgs(c, d) ==
    /\ c.addr_type = d.addr_type
    /\ c.spending_data = d.spending_data
    /\ c.attrs = d.attrs

(* C1: encoding ScriptASD or RedeemASD (directly, or through Addr::new or   *)
(* ExtendedAddr::new) ends in an UnsupportedSpendingKind error returned to  *)
(* the caller, never in a panic, with no byte appended to any buffer.  The  *)
(* code panics, and Addr::new has by then written the array header and the  *)
(* address kind to its buffer.                                              *)
CexC1 ==
    (/\ op.name \in {"SpendingData::encode", "Addr::new", "ExtendedAddr::new"}
     /\ op.arg \in UnsupportedVariants)
        => /\ status = "UnsupportedSpendingKind"
           /\ buff = << >>
           /\ sink = op.pre

ThmC3 ==
    /\ ea # << >> =>
          /\ ea_args # << >>
          /\ ea[1].addr = Addr_new(ea_args[1].addr_type,
                                   ea_args[1].spending_data, ea_args[1].attrs)
          /\ ea[1].attributes = ea_args[1].attrs
          /\ ea[1].addr_type = ea_args[1].addr_type
    /\ copy # << >> => copy = ea

WitC3 ==
    /\ ea # << >>
    /\ ea[1].attributes.derivation_path.some
    /\ out # << >>
    /\ sink # << >>
    /\ copy # << >>
    /\ detached # << >>

(* C4: the last 4 bytes of to_bytes(), read big-endian, are crc32 of the    *)
(* content of the byte string inside the tag-24 wrapper, and that content   *)
(* is the encoding of the ExtendedAddr.                                     *)
ThmC4 ==
    out # << >> =>
        LET n == Len(out)
            content == BsContent(out, 4)
            crc == crc32(content)
        IN  /\ out[1] = 130
            /\ out[2] = 216
            /\ out[3] = 24
            /\ IsBsAt(out, 4)
            /\ out[n - 3] * 256 + out[n - 2] = crc.hi
            /\ out[n - 1] * 256 + out[n] = crc.lo
            /\ content = ExtendedAddr_encode(ea[1], << >>)

WitC4 ==
    /\ out # << >>
    /\ ea[1].addr_type = "ATRedeem"
    /\ ~ea[1].attributes.derivation_path.some
    /\ ea[1].attributes.stake_distribution.variant = "SingleKeyDistr"

(* C5 as stated: to_bytes() is the tag-24-wrapped part followed by the      *)
(* checksum as 4 raw big-endian bytes, so its length is that of the wrapped *)
(* part plus 4.                                                             *)
CexC5 ==
    out # << >> =>
        LET inner == ExtendedAddr_encode(ea[1], << >>)
            wrapped == <<130, 216, 24>> \o cbor_bs(inner, << >>)
        IN  /\ out = wrapped \o BigEndian4(crc32(inner))
            /\ Len(out) = Len(wrapped) + 4

(* C5 amended: to_bytes() is the tag-24-wrapped part followed by the        *)
(* checksum written as an unsigned 32-bit integer item: the byte 0x1a, then *)
(* the 4 big-endian bytes; its length is that of the wrapped part plus 5.   *)
ThmC5 ==
    out # << >> =>
        LET inner == ExtendedAddr_encode(ea[1], << >>)
            wrapped == <<130, 216, 24>> \o cbor_bs(inner, << >>)
        IN  /\ out = wrapped \o <<26>> \o BigEndian4(crc32(inner))
            /\ Len(out) = Len(wrapped) + 5

WitC5 ==
    /\ out # << >>
    /\ ea[1].attributes = Attributes_new_era
    /\ out[Len(out) - 4] = 26
    /\ SubSeq(out, Len(out) - 3, Len(out)) =
           BigEndian4(crc32(ExtendedAddr_encode(ea[1], << >>)))

CexC7 ==
    op.name = "Attributes::encode" =>
        LET rest == DropFirst(sink, Len(op.pre))
            framing == StakeFraming(op.arg.stake_distribution)
        IN  /\ SubSeq(rest, 1, 2) = <<162, 0>>
            /\ SubSeq(rest, 3, 2 + Len(framing)) = framing
            /\ DropFirst(rest, 2 + Len(framing))
                   = Option_encode(op.arg.derivation_path, <<1>>)

(* C7 amended: in the encoding of Attributes the value after key 0 is one   *)
(* byte string, whose content is the sum-type framing of the stake          *)
(* distribution (array of 2, 0, the stakeholder id as a byte string; or     *)
(* array of 1, 1); key 1 and the optional payload follow it.                *)
ThmC7 ==
    op.name = "Attributes::encode" =>
        LET rest == DropFirst(sink, Len(op.pre))
            framing == StakeFraming(op.arg.stake_distribution)
        IN  /\ SubSeq(sink, 1, Len(op.pre)) = op.pre
            /\ SubSeq(rest, 1, 2) = <<162, 0>>
            /\ IsBsAt(rest, 3)
            /\ BsContent(rest, 3) = framing
            /\ DropFirst(rest, 2 + BsHeaderSize(rest, 3) + Len(framing))
                   = Option_encode(op.arg.derivation_path, <<1>>)

WitC7 ==
    /\ op.name = "Attributes::encode"
    /\ op.arg.stake_distribution.variant = "SingleKeyDistr"
    /\ op.arg.derivation_path.some
    /\ op.pre # << >>

(* C8 as stated: encoding None appends the bytes 82 00; encoding Some(x)    *)
(* appends the encoding of x and nothing else.                              *)
CexC8 ==
    op.name = "Option::encode" =>
        IF op.arg.some THEN sink = HDAddressPayload_encode(op.arg.val, op.pre)
        ELSE sink = op.pre \o <<130, 0>>

(* C8 amended: encoding None appends the array header of length 1 and the   *)
(* value 0, which are the bytes 81 00; encoding Some(x) appends the         *)
(* encoding of x and nothing else.                                          *)
ThmC8 ==
    op.name = "Option::encode" =>
        IF op.arg.some THEN sink = HDAddressPayload_encode(op.arg.val, op.pre)
        ELSE sink = op.pre \o <<129, 0>>

WitC8 ==
    /\ op.name = "Option::encode"
    /\ ~op.arg.some
    /\ Len(op.pre) = 2

(* C9: two returning calls of Addr::new whose arguments differ (in the      *)
(* kind, the spending key, the stake distribution or the payload) hash      *)
(* different byte sequences.                                                *)
ThmC9 ==
    (first # << >> /\ last # << >> /\ ~SameArgs(first[1], last[1]))
        => first[1].preimage # last[1].preimage

\* the two calls differ only in that the second has an empty payload where
\* the first has none
WitC9 ==
    /\ first # << >>
    /\ last # << >>
    /\ first[1].addr_type = last[1].addr_type
    /\ first[1].spending_data = last[1].spending_data
    /\ first[1].attrs.stake_distribution = last[1].attrs.stake_distribution
    /\ first[1].attrs.derivation_path = None
    /\ last[1].attrs.derivation_path = Some(HDAddressPayload_new(<< >>))

=============================================================================
